---------------------------- MODULE Spec2Model ----------------------------
(***************************************************************************)
(* A model of src/config.py: the text chunker (split_text), the embedding  *)
(* generator (get_embedding), the vector store adapter (store_to_mongo,    *)
(* check_search_index, search_mongo), the ranker (cosine_similarity and    *)
(* the sort in process_document), the orchestrator (process_document) and  *)
(* the command handler (search_command) as scheduled by the bot's event    *)
(* loop.                                                                   *)
(*                                                                         *)
(* Python strings are TLA+ strings: Len, \o and SubSeq act on them, and    *)
(* the character at 0-based index i of s is SubSeq(s, i + 1, i + 1).       *)
(***************************************************************************)
EXTENDS Integers, Sequences, FiniteSets, TLC

VARIABLES
    \* ---- split_text, one call (its arguments, locals and return value)
    arg_text,       \* the text argument as passed
    text,           \* the local `text` (normalised at lines 97-98)
    chunk_size,
    overlap,
    chunks,         \* the local list `chunks`
    start,          \* the cursor
    spans,          \* history: <<start, break_point, kind>> of each chunk built
    result,         \* the returned list
    rspans,         \* history: the spans of the chunks that were returned
    spc,            \* position: "call", "loop", "done"
    \* ---- get_embedding, one call
    emb_text,       \* the text argument
    emb_resp,       \* what ollama.embeddings does on this call
    emb_out,        \* the value returned and the error printed
    emb_pc,         \* position: "call", "done"
    \* ---- search_mongo and the ranking of its results, one call
    rk_query,       \* the query vector
    rk_coll,        \* the documents of the collection, in insertion order
    rk_results,     \* what search_mongo returned
    rk_out,         \* the ranked list
    rk_pc,          \* position: "search", "rank", "done"
    \* ---- the bot: search_command invocations over one event loop
    run,            \* per invocation: its position, its locals and histories
    current,        \* the invocation that holds the event loop, or 0
    collection,     \* the documents of the MongoDB collection, in insertion order
    cache           \* the Redis entries: [key, value, ttl]

splitVars == <<arg_text, text, chunk_size, overlap, chunks, start, spans,
               result, rspans, spc>>

embVars == <<emb_text, emb_resp, emb_out, emb_pc>>

rankVars == <<rk_query, rk_coll, rk_results, rk_out, rk_pc>>

botVars == <<run, current, collection, cache>>

vars == <<splitVars, embVars, rankVars, botVars>>

----------------------------------------------------------------------------
(* Bounds of the model *)

MaxLen == 5         \* longest text handed to split_text in SplitSpec
MaxChunk == 3       \* largest chunk_size tried in SplitSpec
MaxIter == 6        \* loop iterations followed before the model stops
MaxOff == 1         \* lengths up to this far from the required one are tried
NumTasks == 2       \* search_command invocations
NumWords == 250     \* words of the long document
LongQueryLen == 1500 \* length of the long query
MaxColl == 4        \* most documents in the collection searched in RankSpec

----------------------------------------------------------------------------
(* Strings *)

Min(a, b) == IF a < b THEN a ELSE b
Max(a, b) == IF a > b THEN a ELSE b

\* Python's s[a:b] for 0 <= a, 0 <= b (b is clipped to len(s)).
Slice(s, a, b) == SubSeq(s, a + 1, Min(b, Len(s)))

\* Python's s[a:] for 0 <= a.
SliceFrom(s, a) == SubSeq(s, a + 1, Len(s))

CharAt(s, i) == SubSeq(s, i + 1, i + 1)

IsSpace(c) == c \in {" ", "\n", "\t"}

RECURSIVE LStrip(_)
LStrip(s) ==
    IF s # "" /\ IsSpace(CharAt(s, 0)) THEN LStrip(SliceFrom(s, 1)) ELSE s

RECURSIVE RStrip(_)
RStrip(s) ==
    IF s # "" /\ IsSpace(CharAt(s, Len(s) - 1))
    THEN RStrip(Slice(s, 0, Len(s) - 1))
    ELSE s

\* str.strip()
Strip(s) == RStrip(LStrip(s))

\* Every whitespace run of s replaced by one space (by halves, so that a long
\* text needs no deep recursion).
RECURSIVE Collapse(_)
Collapse(s) ==
    IF Len(s) = 0 THEN ""
    ELSE IF Len(s) = 1 THEN (IF IsSpace(s) THEN " " ELSE s)
    ELSE LET m == Len(s) \div 2
             a == Collapse(Slice(s, 0, m))
             b == Collapse(SliceFrom(s, m))
         IN  IF CharAt(a, Len(a) - 1) = " " /\ CharAt(b, 0) = " "
             THEN a \o SliceFrom(b, 1)
             ELSE a \o b

\* ' '.join(s.split()): the words of s joined by single spaces.
JoinSplit(s) == Strip(Collapse(s))

\* str.rfind(c, lo, hi) for 0 <= lo and hi <= len(s): the highest index in
\* [lo, hi) holding c, or -1.
RFind(s, c, lo, hi) ==
    LET hits == {i \in lo..(hi - 1) : CharAt(s, i) = c}
    IN  IF hits = {} THEN -1 ELSE CHOOSE i \in hits : \A j \in hits : j <= i

----------------------------------------------------------------------------
(* Vectors.  A Python list of numbers is written [dim, head]: the list of  *)
(* length dim whose first Len(head) entries are head and whose other       *)
(* entries are 0.  None is a value of its own.                             *)

None == [none |-> TRUE]

Vec(n, h) == [dim |-> n, head |-> h]

\* len(v)
VLen(v) == v.dim

\* v[i] for 0 <= i < len(v)
VAt(v, i) == IF i < Len(v.head) THEN v.head[i + 1] ELSE 0

\* Python's truth value of None or of a list.
Truthy(v) == v # None /\ VLen(v) > 0

\* a or b
Or(a, b) == IF Truthy(a) THEN a ELSE b

----------------------------------------------------------------------------
(* The values the variables of a part hold while another part is checked *)

\* What ollama.embeddings can do: raise, or return a mapping in which each of
\* 'embedding' and 'embeddings' is absent (None from .get) or a list.
Raises == [raises |-> TRUE]

Response(e, es) == [raises |-> FALSE, embedding |-> e, embeddings |-> es]

NoError == [kind |-> "none"]

SplitIdle ==
    /\ arg_text = ""
    /\ chunk_size = 1
    /\ overlap = 0
    /\ text = ""
    /\ chunks = <<>>
    /\ start = 0
    /\ spans = <<>>
    /\ result = <<>>
    /\ rspans = <<>>
    /\ spc = "done"

EmbedIdle ==
    /\ emb_text = ""
    /\ emb_resp = Raises
    /\ emb_out = [value |-> None, error |-> NoError]
    /\ emb_pc = "done"

ListingRaises == [raises |-> TRUE]

\* An invocation that has not started, or whose frame is gone.
Fresh ==
    [pc |-> "idle", query |-> "", text |-> "", chunks |-> <<>>, i |-> 0,
     vecs |-> <<>>, embeddings_chunks |-> <<>>, query_embedding |-> None,
     results |-> <<>>, similarities |-> <<>>, ret |-> <<>>, response |-> "",
     steps |-> {}, downloaded |-> None, store_ok |-> FALSE, stored |-> <<>>,
     listing |-> ListingRaises, seen |-> <<>>, shown |-> 0]

Tasks == 1..NumTasks

BotIdle ==
    /\ run = [t \in Tasks |-> [Fresh EXCEPT !.pc = "done"]]
    /\ current = 0
    /\ collection = <<>>
    /\ cache = {}

RankIdle ==
    /\ rk_query = None
    /\ rk_coll = <<>>
    /\ rk_results = <<>>
    /\ rk_out = <<>>
    /\ rk_pc = "done"

----------------------------------------------------------------------------
(* get_embedding, src/config.py:124-139 *)

EmbedDim == 768

\* A length check that lets longer vectors through (a variant used to test C6).
DimensionAtLeast(embedding) == VLen(embedding) >= EmbedDim

\* Line 134, negated: the length the 'default' index expects.
DimensionOk(embedding) == VLen(embedding) = EmbedDim

\* The value get_embedding returns and the exception it prints at line 138.
GetEmbedding(t, resp) ==
    IF Strip(t) = "" THEN [value |-> None, error |-> NoError]
    ELSE IF resp.raises
    THEN [value |-> None, error |-> [kind |-> "model"]]
    ELSE LET embedding == Or(resp.embedding, resp.embeddings)
         IN  IF ~Truthy(embedding)
             THEN [value |-> None, error |-> [kind |-> "no embedding data"]]
             ELSE IF ~DimensionOk(embedding)
             THEN [value |-> None,
                   error |-> [kind |-> "dimension mismatch",
                              expected |-> EmbedDim,
                              got |-> VLen(embedding)]]
             ELSE [value |-> embedding, error |-> NoError]

\* The lists tried as the model's answer: of the required length and up to
\* MaxOff away from it, empty, and of length 1, with different contents.
TriedDims == {0, 1} \cup ((EmbedDim - MaxOff)..(EmbedDim + MaxOff))

TriedVectors ==
    {Vec(n, h) : n \in TriedDims, h \in {<<>>, <<1>>}} \ {Vec(0, <<1>>)}

TriedResponses ==
    {Raises} \cup {Response(e, es) : e \in TriedVectors \cup {None},
                                     es \in TriedVectors \cup {None}}

EmbedInit ==
    /\ BotIdle
    /\ SplitIdle
    /\ RankIdle
    /\ emb_text \in {"", " ", "cats", " cats purr. "}
    /\ emb_resp \in TriedResponses
    /\ emb_out = [value |-> None, error |-> NoError]
    /\ emb_pc = "call"

EmbedCall ==
    /\ emb_pc = "call"
    /\ emb_out' = GetEmbedding(emb_text, emb_resp)
    /\ emb_pc' = "done"
    /\ UNCHANGED <<emb_text, emb_resp, splitVars, rankVars, botVars>>

EmbedNext == EmbedCall

EmbedSpec == EmbedInit /\ [][EmbedNext]_vars

----------------------------------------------------------------------------
(* Properties of get_embedding, checked under EmbedSpec *)

\* The list the model returned on a call that reached it, if any.
ModelReturned ==
    IF emb_resp.raises THEN None
    ELSE IF emb_resp.embedding # None /\ emb_resp.embedding.dim > 0
    THEN emb_resp.embedding
    ELSE emb_resp.embeddings

ModelAnswered == emb_pc = "done" /\ Strip(emb_text) # "" /\ ModelReturned # None

MismatchError(n) == [kind |-> "dimension mismatch", expected |-> 768, got |-> n]

\* C6 as stated: a vector is returned only when the model returned one of
\* length 768, and every returned list of another length, 0 included, fails
\* with the dimension-mismatch error naming 768 and the actual length.
C6_MismatchForEveryOtherLength ==
    /\ (emb_pc = "done" /\ emb_out.value # None) =>
           (ModelAnswered /\ ModelReturned.dim = 768
               /\ emb_out.value = ModelReturned)
    /\ (ModelAnswered /\ ModelReturned.dim # 768) =>
           /\ emb_out.value = None
           /\ emb_out.error = MismatchError(ModelReturned.dim)

\* C6 as amended: a vector is returned only when the model returned one of
\* length 768; a returned list of a length other than 0 and 768 fails with
\* the dimension-mismatch error naming 768 and the actual length; a returned
\* list of length 0 counts as no embedding data and fails with that error;
\* neither yields an embedding.
C6_MismatchForEveryOtherNonZeroLength ==
    /\ (emb_pc = "done" /\ emb_out.value # None) =>
           (ModelAnswered /\ ModelReturned.dim = 768
               /\ emb_out.value = ModelReturned)
    /\ (ModelAnswered /\ ModelReturned.dim = 768) =>
           emb_out = [value |-> ModelReturned, error |-> [kind |-> "none"]]
    /\ (ModelAnswered /\ ModelReturned.dim \notin {0, 768}) =>
           /\ emb_out.value = None
           /\ emb_out.error = MismatchError(ModelReturned.dim)
    /\ (ModelAnswered /\ ModelReturned.dim = 0) =>
           /\ emb_out.value = None
           /\ emb_out.error = [kind |-> "no embedding data"]

\* A call on which the model returned a list one entry too long.
C6_Witness ==
    /\ ModelAnswered
    /\ ModelReturned.dim = 769
    /\ emb_out.error = MismatchError(769)

----------------------------------------------------------------------------
(* cosine_similarity, src/config.py:220-228.  The quotient                 *)
(* dot / (norm_a * norm_b) is kept exact: [sign, p, q] is the number       *)
(* sign * sqrt(p / q) with p / q in lowest terms, so two similarities are  *)
(* the same number exactly when they are the same record.  Python rounds   *)
(* the quotient to a float; the order of distinct floats is the order of   *)
(* the numbers they round.                                                 *)

RECURSIVE GCD(_, _)
GCD(a, b) == IF b = 0 THEN a ELSE GCD(b, a % b)

RECURSIVE SumTo(_, _)
SumTo(f, n) == IF n = 0 THEN 0 ELSE f[n - 1] + SumTo(f, n - 1)

\* sum(x * y for x, y in zip(a, b)): zip stops at the shorter list, and the
\* entries past both heads are 0.
Dot(a, b) ==
    LET n == Min(Min(VLen(a), VLen(b)), Max(Len(a.head), Len(b.head)))
    IN  SumTo([i \in 0..(n - 1) |-> VAt(a, i) * VAt(b, i)], n)

ZeroSim == [sign |-> 0, p |-> 0, q |-> 1]

\* n / sqrt(d) for d > 0.
OverRoot(n, d) ==
    IF n = 0 THEN ZeroSim
    ELSE LET g == GCD(n * n, d)
         IN  [sign |-> IF n > 0 THEN 1 ELSE -1, p |-> (n * n) \div g, q |-> d \div g]

\* Lines 222-228; a None in place of a list raises in zip, which gives 0.
CosineSimilarity(a, b) ==
    IF a = None \/ b = None THEN ZeroSim
    ELSE IF Dot(a, a) # 0 /\ Dot(b, b) # 0
    THEN OverRoot(Dot(a, b), Dot(a, a) * Dot(b, b))
    ELSE ZeroSim

\* x < y
SimLess(x, y) ==
    IF x.sign # y.sign THEN x.sign < y.sign
    ELSE IF x.sign = 1 THEN x.p * y.q < y.p * x.q
    ELSE IF x.sign = -1 THEN x.p * y.q > y.p * x.q
    ELSE FALSE

\* x > 0
SimPositive(x) == x.sign = 1

----------------------------------------------------------------------------
(* check_search_index and search_mongo, src/config.py:162-217 *)

SearchLimit == 3

IndexName == "default"

\* What $listSearchIndexes can do: raise, or list the indexes of the collection.
Listing(ixs) == [raises |-> FALSE, indexes |-> ixs]

Index(n, ty) == [name |-> n, type |-> ty]

Listings ==
    {ListingRaises, Listing(<<>>), Listing(<<Index("default", "vectorSearch")>>),
     Listing(<<Index("default", "search")>>),
     Listing(<<Index("other", "vectorSearch")>>),
     Listing(<<Index("other", "search"), Index("default", "vectorSearch")>>)}

\* An index check that looks at the name alone (a variant used to test C5).
CheckSearchIndexByName(listing) ==
    /\ ~listing.raises
    /\ \E i \in 1..Len(listing.indexes) : listing.indexes[i].name = IndexName

\* Lines 162-183.
CheckSearchIndex(listing) ==
    /\ ~listing.raises
    /\ \E i \in 1..Len(listing.indexes) :
          /\ listing.indexes[i].name = IndexName
          /\ listing.indexes[i].type = "vectorSearch"

\* The sequences of at most n different positions of 1..m.
RECURSIVE Picks(_, _)
Picks(m, n) ==
    IF n = 0 THEN {<<>>}
    ELSE LET shorter == Picks(m, n - 1)
         IN  shorter \cup
             {Append(ps, k) : <<ps, k>> \in
                 {pk \in {x \in shorter : Len(x) = n - 1} \X (1..m) :
                     \A i \in 1..(n - 1) : pk[1][i] # pk[2]}}

At(coll, ps) == [i \in 1..Len(ps) |-> coll[ps[i]]]

\* Lines 209-214: what the $vectorSearch stage can answer with the given
\* limit, or the empty list when the aggregation raises.  The index is
\* approximate and is built behind the collection's back, so any documents
\* of the collection may come back, in any order.
VectorSearch(coll, limit) == {At(coll, ps) : ps \in Picks(Len(coll), limit)}

\* Lines 186-217: the lists search_mongo can return.
SearchMongo(query_embedding, coll, listing, limit) ==
    IF ~Truthy(query_embedding) THEN {<<>>}
    ELSE IF ~CheckSearchIndex(listing) THEN {<<>>}
    ELSE VectorSearch(coll, limit)

----------------------------------------------------------------------------
(* The ranking in process_document, src/config.py:277-283 *)

Scored(query_embedding, r) ==
    [text |-> r.text,
     similarity |-> CosineSimilarity(query_embedding, r.embedding)]

\* Lines 277-280.
RECURSIVE Similarities(_, _)
Similarities(query_embedding, results) ==
    IF results = <<>> THEN <<>>
    ELSE LET r == Head(results)
             rest == Similarities(query_embedding, Tail(results))
         IN  IF "embedding" \in DOMAIN r
             THEN <<Scored(query_embedding, r)>> \o rest
             ELSE rest

\* A sort that puts an element before the elements it ties with (a variant
\* used to test C7).
InsertBeforeTies(sorted, x) ==
    LET k == Cardinality({i \in 1..Len(sorted) :
                             SimLess(x.similarity, sorted[i].similarity)})
    IN  SubSeq(sorted, 1, k) \o <<x>> \o SubSeq(sorted, k + 1, Len(sorted))

\* One step of list.sort(key=similarity, reverse=True), which is stable: x
\* goes after every element whose similarity is not less than its own.
InsertDescending(sorted, x) ==
    LET k == Cardinality({i \in 1..Len(sorted) :
                             ~SimLess(sorted[i].similarity, x.similarity)})
    IN  SubSeq(sorted, 1, k) \o <<x>> \o SubSeq(sorted, k + 1, Len(sorted))

\* Line 283.
RECURSIVE SortDescending(_)
SortDescending(xs) ==
    IF xs = <<>> THEN <<>>
    ELSE InsertDescending(SortDescending(SubSeq(xs, 1, Len(xs) - 1)), xs[Len(xs)])

\* Lines 277-283.
Rank(query_embedding, results) ==
    SortDescending(Similarities(query_embedding, results))

\* The documents tried in the collection: vectors that tie for a query, that
\* point away from it, the zero vector, and a document stored by another
\* program without the 'embedding' field.
Doc(t, e) == [text |-> t, embedding |-> e]

TriedQueries ==
    {Vec(EmbedDim, <<1, 1>>), Vec(EmbedDim, <<-1, 2>>), Vec(EmbedDim, <<>>)}

DocList ==
    <<Doc("east", Vec(EmbedDim, <<1, 0>>)), Doc("east twice", Vec(EmbedDim, <<2, 0>>)),
      Doc("west", Vec(EmbedDim, <<-1, 0>>)),
      Doc("nowhere", Vec(EmbedDim, <<>>)), [text |-> "no vector"]>>

TriedCollections ==
    {At(DocList, ps) : ps \in Picks(Len(DocList), MaxColl)}

RankInit ==
    /\ BotIdle
    /\ SplitIdle
    /\ EmbedIdle
    /\ rk_query \in TriedQueries
    /\ rk_coll \in TriedCollections
    /\ rk_results = <<>>
    /\ rk_out = <<>>
    /\ rk_pc = "search"

\* Line 276.
RankSearch ==
    /\ rk_pc = "search"
    /\ \E listing \in Listings :
          rk_results' \in SearchMongo(rk_query, rk_coll, listing, SearchLimit)
    /\ rk_pc' = "rank"
    /\ UNCHANGED <<rk_query, rk_coll, rk_out, splitVars, embVars, botVars>>

\* Lines 277-283.
RankSort ==
    /\ rk_pc = "rank"
    /\ rk_out' = Rank(rk_query, rk_results)
    /\ rk_pc' = "done"
    /\ UNCHANGED <<rk_query, rk_coll, rk_results, splitVars, embVars, botVars>>

RankNext == RankSearch \/ RankSort

RankSpec == RankInit /\ [][RankNext]_vars

----------------------------------------------------------------------------
(* Properties of the search and the ranking, checked under RankSpec *)

\* The positions of the candidates that carry a vector.
Carrying == {i \in 1..Len(rk_results) : "embedding" \in DOMAIN rk_results[i]}

\* C7: the ranked list holds exactly the candidates that carry a vector, in
\* non-increasing order of similarity, candidates of equal similarity in
\* their candidate order, and is no longer than the limit of 3.
C7_RankedStableDescending ==
    rk_pc = "done" =>
        /\ Len(rk_results) <= 3
        /\ Len(rk_out) <= 3
        /\ Len(rk_out) = Cardinality(Carrying)
        /\ \E pos \in [1..Len(rk_out) -> Carrying] :
              /\ \A i, j \in 1..Len(rk_out) : i # j => pos[i] # pos[j]
              /\ \A j \in 1..Len(rk_out) :
                    /\ rk_out[j].text = rk_results[pos[j]].text
                    /\ rk_out[j].similarity =
                           CosineSimilarity(rk_query, rk_results[pos[j]].embedding)
              /\ \A j \in 1..(Len(rk_out) - 1) :
                    \/ SimLess(rk_out[j + 1].similarity, rk_out[j].similarity)
                    \/ /\ rk_out[j + 1].similarity = rk_out[j].similarity
                       /\ pos[j] < pos[j + 1]

\* A search over four documents that returned three, one without a vector
\* and two that tie, given in the opposite of their order in the collection.
C7_Witness ==
    /\ rk_pc = "done"
    /\ Len(rk_coll) = 4
    /\ Len(rk_results) = 3
    /\ Len(rk_out) = 2
    /\ rk_out[1].similarity = rk_out[2].similarity
    /\ SimPositive(rk_out[1].similarity)
    /\ rk_out[1].text = "east twice"
    /\ rk_out[2].text = "east"

----------------------------------------------------------------------------
(* split_text, src/config.py:93-121 *)

\* Lines 97-98.
NormalizeText(t) == JoinSplit(Strip(t))

\* Lines 111-115: the break point of the window [s, e).
BreakPoint(t, s, e) ==
    LET dot == RFind(t, ".", s, e)
        sp  == RFind(t, " ", s, e)
    IN  IF dot # -1 THEN dot ELSE IF sp # -1 THEN sp ELSE e

\* A cursor that moves one character too far (a variant used to test C8).
NextStartSkip(bp, ov) == Max(bp + 2 - ov, 0)

\* Lines 117-119: the next cursor.
NextStart(bp, ov) == Max(bp + 1 - ov, 0)

\* Line 116: the chunk appended by an iteration that is not the last.
ChunkAt(t, s, bp) == Strip(Slice(t, s, bp + 1))

\* Line 121.
SelectNonEmpty(cs) == SelectSeq(cs, LAMBDA c : c # "")

SelectSpans(cs, sps) ==
    LET keep == {i \in 1..Len(cs) : cs[i] # ""}
        F[i \in 0..Len(cs)] ==
            IF i = 0 THEN <<>>
            ELSE IF i \in keep THEN Append(F[i - 1], sps[i]) ELSE F[i - 1]
    IN  F[Len(cs)]

Alphabet == {"a", ".", " ", "\n"}

RECURSIVE Texts(_)
Texts(n) ==
    IF n = 0 THEN {""}
    ELSE LET shorter == Texts(n - 1)
         IN  shorter \cup {s \o c : s \in {x \in shorter : Len(x) = n - 1},
                                    c \in Alphabet}

SplitInit ==
    /\ BotIdle
    /\ EmbedIdle
    /\ RankIdle
    /\ arg_text \in Texts(MaxLen)
    /\ chunk_size \in 1..MaxChunk
    /\ overlap \in 0..(chunk_size - 1)
    /\ text = arg_text
    /\ chunks = <<>>
    /\ start = 0
    /\ spans = <<>>
    /\ result = <<>>
    /\ rspans = <<>>
    /\ spc = "call"

\* Lines 94-104: the part before the loop.
SplitEnter ==
    /\ spc = "call"
    /\ IF arg_text = ""
       THEN /\ spc' = "done"
            /\ result' = <<>>
            /\ UNCHANGED <<text, spans, rspans>>
       ELSE LET t == NormalizeText(arg_text)
            IN  /\ text' = t
                /\ IF Len(t) <= chunk_size
                   THEN /\ spc' = "done"
                        /\ result' = <<t>>
                        /\ spans' = << <<0, Len(t) - 1, "whole">> >>
                        /\ rspans' = << <<0, Len(t) - 1, "whole">> >>
                   ELSE /\ spc' = "loop"
                        /\ UNCHANGED <<result, spans, rspans>>
    /\ UNCHANGED <<arg_text, chunk_size, overlap, chunks, start, embVars, rankVars, botVars>>

\* Lines 106-110 and 121: the iteration that takes the remainder, and the return.
SplitLast ==
    /\ spc = "loop"
    /\ start < Len(text)
    /\ start + chunk_size >= Len(text)
    /\ LET cs  == Append(chunks, SliceFrom(text, start))
           sps == Append(spans, <<start, Len(text) - 1, "rest">>)
       IN  /\ chunks' = cs
           /\ spans' = sps
           /\ result' = SelectNonEmpty(cs)
           /\ rspans' = SelectSpans(cs, sps)
    /\ spc' = "done"
    /\ UNCHANGED <<arg_text, text, chunk_size, overlap, start, embVars, rankVars, botVars>>

\* Lines 106-119: an iteration that breaks the window and moves the cursor.
SplitIter ==
    /\ spc = "loop"
    /\ start < Len(text)
    /\ start + chunk_size < Len(text)
    /\ Len(chunks) < MaxIter
    /\ LET bp == BreakPoint(text, start, start + chunk_size)
       IN  /\ chunks' = Append(chunks, ChunkAt(text, start, bp))
           /\ spans' = Append(spans, <<start, bp, "cut">>)
           /\ start' = NextStart(bp, overlap)
    /\ UNCHANGED <<arg_text, text, chunk_size, overlap, result, rspans, spc, embVars, rankVars, botVars>>

\* Lines 106 and 121: the loop condition fails, the filtered list is returned.
SplitExit ==
    /\ spc = "loop"
    /\ start >= Len(text)
    /\ result' = SelectNonEmpty(chunks)
    /\ rspans' = SelectSpans(chunks, spans)
    /\ spc' = "done"
    /\ UNCHANGED <<arg_text, text, chunk_size, overlap, chunks, start, spans, embVars, rankVars, botVars>>

SplitNext == SplitEnter \/ SplitLast \/ SplitIter \/ SplitExit

SplitSpec == SplitInit /\ [][SplitNext]_vars

----------------------------------------------------------------------------
(* Properties of split_text, checked under SplitSpec *)

Returned == spc = "done"

\* The substring of the normalised text that a span covers.
SpanText(sp) == Slice(text, sp[1], sp[2] + 1)

Covered(p, sps) == \E i \in 1..Len(sps) : sps[i][1] <= p /\ p <= sps[i][2]

\* C1: no element of the list split_text returns is the empty string, and an
\* empty text gives the empty list.
C1_NoEmptyChunk ==
    Returned =>
        /\ \A i \in 1..Len(result) : result[i] # ""
        /\ (arg_text = "" => result = <<>>)

\* C2: every loop iteration that does not emit the final chunk moves the
\* cursor to a strictly greater value.
C2_CursorAdvances ==
    [][(spc = "loop" /\ spc' = "loop") => start' > start]_vars

\* C8 as stated: for a non-empty text on which split_text returns, every
\* returned chunk is the trimmed substring from its cursor to its break
\* point, the first cursor is 0, each next cursor is
\* max(0, break_point + 1 - overlap), the last chunk ends at the end of the
\* text, and every position of the normalised text lies in the range of a
\* returned chunk.
C8_ReturnedChunksCover ==
    (Returned /\ arg_text # "") =>
        /\ Len(result) = Len(rspans)
        /\ Len(result) >= 1
        /\ \A i \in 1..Len(result) : result[i] = Strip(SpanText(rspans[i]))
        /\ rspans[1][1] = 0
        /\ \A i \in 1..(Len(rspans) - 1) :
              rspans[i + 1][1] = Max(0, rspans[i][2] + 1 - overlap)
        /\ rspans[Len(rspans)][2] = Len(text) - 1
        /\ \A p \in 0..(Len(text) - 1) : Covered(p, rspans)

\* C8 as amended: for a non-empty text on which split_text returns, the
\* ranges the loop cut (cursor to break point) start at 0, each next cursor
\* is max(0, break_point + 1 - overlap) and so at most one past the previous
\* break point, the last range ends at the end of the normalised text, and
\* every position lies in a range; a returned chunk is the substring of its
\* range, trimmed unless it is the remainder taken by the final iteration;
\* the ranges whose trimmed substring is empty return nothing, so every
\* position that holds no space lies in the range of a returned chunk.
C8_RangesCover ==
    (Returned /\ arg_text # "") =>
        /\ Len(spans) >= 1
        /\ spans[1][1] = 0
        /\ \A i \in 1..(Len(spans) - 1) :
              /\ spans[i + 1][1] = Max(0, spans[i][2] + 1 - overlap)
              /\ spans[i + 1][1] <= spans[i][2] + 1
        /\ spans[Len(spans)][2] = Len(text) - 1
        /\ \A p \in 0..(Len(text) - 1) : Covered(p, spans)
        /\ Len(result) = Len(rspans)
        /\ \A i \in 1..Len(result) :
              result[i] = IF rspans[i][3] = "cut"
                          THEN Strip(SpanText(rspans[i]))
                          ELSE SpanText(rspans[i])
        /\ \A i \in 1..Len(spans) :
              (\E j \in 1..Len(rspans) : rspans[j] = spans[i])
                  \/ Strip(SpanText(spans[i])) = ""
        /\ \A p \in 0..(Len(text) - 1) :
              CharAt(text, p) # " " => Covered(p, rspans)

\* A call that returned several chunks after dropping an empty one.
C8_Witness ==
    /\ Returned
    /\ Len(result) >= 2
    /\ Len(spans) > Len(rspans)
    /\ \E p \in 0..(Len(text) - 1) : ~Covered(p, rspans)

----------------------------------------------------------------------------
(* split_text as process_document calls it: the whole call.  The loop is   *)
(* followed until it returns or until the cursor takes a value it had      *)
(* before, after which it repeats for ever.                                *)

DefaultChunkSize == 1000

DefaultOverlap == 200

RECURSIVE SplitLoop(_, _, _, _, _, _)
SplitLoop(t, cs, ov, s, acc, seen) ==
    IF s >= Len(t) THEN [hangs |-> FALSE, chunks |-> SelectNonEmpty(acc)]
    ELSE IF s + cs >= Len(t)
    THEN [hangs |-> FALSE, chunks |-> SelectNonEmpty(Append(acc, SliceFrom(t, s)))]
    ELSE IF s \in seen THEN [hangs |-> TRUE, chunks |-> <<>>]
    ELSE LET bp == BreakPoint(t, s, s + cs)
         IN  SplitLoop(t, cs, ov, NextStart(bp, ov),
                       Append(acc, ChunkAt(t, s, bp)), seen \cup {s})

SplitText(t, cs, ov) ==
    IF t = "" THEN [hangs |-> FALSE, chunks |-> <<>>]
    ELSE LET n == NormalizeText(t)
         IN  IF Len(n) <= cs THEN [hangs |-> FALSE, chunks |-> <<n>>]
             ELSE SplitLoop(n, cs, ov, 0, <<>>, {})

----------------------------------------------------------------------------
(* The environment of the bot *)

RECURSIVE Rep(_, _)
Rep(s, n) ==
    IF n = 0 THEN ""
    ELSE LET h == Rep(s, n \div 2)
         IN  IF n % 2 = 0 THEN h \o h ELSE h \o h \o s

LongDoc == Rep("word ", NumWords)

\* What download_from_drive can return (lines 38-75): None, or a text, which
\* may be empty, all whitespace, short, long, or one split_text never
\* returns from.
Text(t) == [text |-> t]

Downloads ==
    {None, Text(""), Text(" \n"), Text("Cats purr. Dogs bark."), Text(LongDoc),
     Text("Hi." \o Rep("a", DefaultChunkSize + 1))}

HomeChannel == "home"

Channels == {HomeChannel, "elsewhere"}

Author == "1001"

\* Line 317: the most characters a message may hold.
MessageLimit == 2000

LongQuery == Rep("c", LongQueryLen)

\* The text after `!search `: short ones, a long one, and one so long that
\* the first reply no longer fits a message.
Queries == {"dogs", LongQuery, Rep("x", MessageLimit)}

\* The vector the embedding model gives a prompt.
ModelVector(prompt) ==
    IF prompt # "" /\ CharAt(prompt, 0) = "d" THEN Vec(EmbedDim, <<-1, 0>>)
    ELSE Vec(EmbedDim, <<1, 0>>)

\* What the model can do with a prompt: raise, answer with its vector, or
\* answer with a list of another length.
Responses(prompt) ==
    {Raises, Response(ModelVector(prompt), None), Response(None, Vec(1, <<1>>))}

StaleDoc == Doc("left by an earlier session", Vec(EmbedDim, <<1, 0>>))

----------------------------------------------------------------------------
(* store_to_mongo, src/config.py:142-159 *)

\* A store that deletes nothing (a variant used to test C3).
KeepMany(coll) == coll

\* Line 147: collection.delete_many({}).
DeleteMany(coll) == <<>>

\* Lines 149-152: the documents inserted for the pairs of embeddings_chunks.
RECURSIVE Inserts(_)
Inserts(pairs) ==
    IF pairs = <<>> THEN <<>>
    ELSE LET chunk == Head(pairs)[1]
             vector == Head(pairs)[2]
         IN  IF Truthy(vector) /\ Strip(chunk) # ""
             THEN <<Doc(chunk, vector)>> \o Inserts(Tail(pairs))
             ELSE Inserts(Tail(pairs))

\* What store_to_mongo can leave behind: everything stored; or, when the
\* driver raises (the exception is printed at line 156), the collection as it
\* was, or emptied and holding the first few inserts.
StoreOutcomes(coll, pairs) ==
    LET docs == Inserts(pairs)
    IN  {[ok |-> TRUE, coll |-> DeleteMany(coll) \o docs],
         [ok |-> FALSE, coll |-> coll]}
        \cup {[ok |-> FALSE, coll |-> DeleteMany(coll) \o SubSeq(docs, 1, k)] :
                 k \in 0..(Len(docs) - 1)}

----------------------------------------------------------------------------
(* store_to_redis, src/config.py:231-240 *)

CacheTtl == 300

\* r.setex(key, ttl, json.dumps(value)); the value is kept as the list.
SetEx(entries, key, ttl, value) ==
    {e \in entries : e.key # key} \cup {[key |-> key, value |-> value, ttl |-> ttl]}

----------------------------------------------------------------------------
(* The reply of search_command, src/config.py:308-318 *)

DownloadFailedMsg == "Failed to download or extract text from document"

QueryFailedMsg == "Failed to generate query embedding"

NoResultsMsg ==
    "No results found. Make sure the vector search index is configured correctly."

Synthetic(msg) == <<[text |-> msg, similarity |-> ZeroSim]>>

Digit(d) == CharAt("0123456789", d)

\* sqrt(p / q) in thousandths, rounded to the nearest.
Thousandths(x) ==
    LET fits == {n \in 1..1000 : (2 * n - 1) * (2 * n - 1) * x.q <= 4000000 * x.p}
    IN  IF fits = {} THEN 0 ELSE CHOOSE n \in fits : \A m \in fits : m <= n

\* f"{x:.3f}" for a similarity, which lies between -1 and 1.
Format3f(x) ==
    LET n == Thousandths(x)
    IN  (IF x.sign = -1 THEN "-" ELSE "")
        \o Digit(n \div 1000) \o "."
        \o Digit((n \div 100) % 10) \o Digit((n \div 10) % 10) \o Digit(n % 10)

PreviewLen == 500

\* Line 312.
Preview(t) == IF Len(t) > PreviewLen THEN Slice(t, 0, PreviewLen) \o "..." ELSE t

\* Line 313.
Entry(i, r) ==
    "**" \o Digit(i) \o ". Match (Similarity: " \o Format3f(r.similarity) \o ")**\n"
    \o Preview(r.text) \o "\n\n"

ShownLimit == 3

\* Lines 310-313: the entries of similarities[:3].
RECURSIVE Entries(_, _)
Entries(sims, n) ==
    IF n = 0 THEN "" ELSE Entries(sims, n - 1) \o Entry(n, sims[n])

\* A test that also takes a similarity of 0 for a match (a variant used to
\* test C10).
IsMatchOrZero(x) == x.sign >= 0

\* Line 308: similarities[0]['similarity'] > 0.
IsMatch(x) == SimPositive(x)

TruncatedLen == 1997

\* Lines 317-318.
Truncate(response) ==
    IF Len(response) > MessageLimit
    THEN Slice(response, 0, TruncatedLen) \o "..."
    ELSE response

\* Lines 308-318.
Reply(query, similarities) ==
    Truncate(IF similarities # <<>> /\ IsMatch(similarities[1].similarity)
             THEN "**Top Results for: '" \o query \o "'**\n\n"
                  \o Entries(similarities, Min(Len(similarities), ShownLimit))
             ELSE NoResultsMsg)

\* Line 303.
Acknowledgement(query) ==
    "Searching for: '" \o query \o "' - This may take a moment..."

\* ctx.send raises when the content is longer than a message may be.
Sendable(content) == Len(content) <= MessageLimit

----------------------------------------------------------------------------
(* The event loop.  An invocation runs from one await to the next without  *)
(* giving up the loop; every call process_document makes is a blocking     *)
(* call, so the only awaits that suspend are the two ctx.send of           *)
(* search_command (lines 303 and 320).                                     *)

\* An orchestrator whose store step awaits (a variant used to test C9).
SuspendsAtPersistToo(step) == step \in {"ack", "persist", "send"}

Suspends(step) == step \in {"ack", "send"}

\* Who holds the loop after invocation t has done `step`.
After(t, step) == IF Suspends(step) THEN 0 ELSE t

CanStep(t) == current = 0 \/ current = t

Log(r, step) == [r EXCEPT !.steps = @ \cup {step}]

\* A download that counts as failed only when it is None (a variant used to
\* test C4).
IsNone(d) == d = None

\* Line 248: `not text`.
NoText(d) == d = None \/ d.text = ""

BotInit ==
    /\ SplitIdle
    /\ EmbedIdle
    /\ RankIdle
    /\ run = [t \in Tasks |-> Fresh]
    /\ current = 0
    /\ collection = <<StaleDoc>>
    /\ cache = {}

\* Lines 299-303: the command arrives; outside the configured channel it is
\* ignored, otherwise the first reply is sent.
Dispatch(t) ==
    /\ run[t].pc = "idle"
    /\ current = 0
    /\ \E ch \in Channels, q \in Queries :
          IF ch # HomeChannel
          THEN /\ run' = [run EXCEPT ![t] = [Fresh EXCEPT !.pc = "done"]]
               /\ current' = 0
          ELSE IF ~Sendable(Acknowledgement(q))
          THEN /\ run' = [run EXCEPT ![t] = [Fresh EXCEPT !.pc = "done"]]
               /\ current' = 0
          ELSE /\ run' = [run EXCEPT ![t] = [Fresh EXCEPT !.pc = "acked", !.query = q]]
               /\ current' = After(t, "ack")
    /\ UNCHANGED <<collection, cache, splitVars, embVars, rankVars>>

\* Lines 247-249.
Fetch(t) ==
    /\ run[t].pc = "acked"
    /\ CanStep(t)
    /\ \E d \in Downloads :
          LET r == Log([run[t] EXCEPT !.downloaded = d], "fetch")
          IN  IF NoText(d)
              THEN run' = [run EXCEPT ![t] =
                              [r EXCEPT !.pc = "render",
                                        !.ret = Synthetic(DownloadFailedMsg)]]
              ELSE run' = [run EXCEPT ![t] =
                              [r EXCEPT !.pc = "chunk", !.text = d.text]]
    /\ current' = After(t, "fetch")
    /\ UNCHANGED <<collection, cache, splitVars, embVars, rankVars>>

\* Line 254.  A call that never returns keeps the loop for ever.
Chunk(t) ==
    /\ run[t].pc = "chunk"
    /\ CanStep(t)
    /\ LET split == SplitText(run[t].text, DefaultChunkSize, DefaultOverlap)
           r == Log(run[t], "chunk")
       IN  IF split.hangs
           THEN /\ run' = [run EXCEPT ![t] = [r EXCEPT !.pc = "hung"]]
                /\ current' = t
           ELSE /\ run' = [run EXCEPT ![t] =
                              [r EXCEPT !.chunks = split.chunks,
                                        !.pc = IF split.chunks = <<>>
                                               THEN "persist" ELSE "embed"]]
                /\ current' = After(t, "chunk")
    /\ UNCHANGED <<collection, cache, splitVars, embVars, rankVars>>

\* Lines 259-264: one iteration of the loop over the chunks.
Embed(t) ==
    /\ run[t].pc = "embed"
    /\ CanStep(t)
    /\ LET chunk == run[t].chunks[run[t].i + 1]
       IN  \E resp \in Responses(chunk) :
              LET embedding == GetEmbedding(chunk, resp).value
                  r == Log(run[t], "embed")
              IN  run' = [run EXCEPT ![t] =
                      [r EXCEPT !.vecs = Append(@, embedding),
                                !.embeddings_chunks =
                                    IF Truthy(embedding)
                                    THEN Append(@, <<chunk, embedding>>) ELSE @,
                                !.i = @ + 1,
                                !.pc = IF run[t].i + 1 = Len(run[t].chunks)
                                       THEN "persist" ELSE "embed"]]
    /\ current' = After(t, "embed")
    /\ UNCHANGED <<collection, cache, splitVars, embVars, rankVars>>

\* Line 269.
Persist(t) ==
    /\ run[t].pc = "persist"
    /\ CanStep(t)
    /\ \E out \in StoreOutcomes(collection, run[t].embeddings_chunks) :
          /\ collection' = out.coll
          /\ run' = [run EXCEPT ![t] =
                        [Log(run[t], "persist") EXCEPT !.store_ok = out.ok,
                                                       !.stored = out.coll,
                                                       !.pc = "embedq"]]
    /\ current' = After(t, "persist")
    /\ UNCHANGED <<cache, splitVars, embVars, rankVars>>

\* Lines 272-274.
EmbedQuery(t) ==
    /\ run[t].pc = "embedq"
    /\ CanStep(t)
    /\ \E resp \in Responses(run[t].query) :
          LET query_embedding == GetEmbedding(run[t].query, resp).value
              r == Log(run[t], "embedq")
          IN  IF ~Truthy(query_embedding)
              THEN run' = [run EXCEPT ![t] =
                              [r EXCEPT !.pc = "render",
                                        !.ret = Synthetic(QueryFailedMsg)]]
              ELSE run' = [run EXCEPT ![t] =
                              [r EXCEPT !.pc = "search",
                                        !.query_embedding = query_embedding]]
    /\ current' = After(t, "embedq")
    /\ UNCHANGED <<collection, cache, splitVars, embVars, rankVars>>

\* Line 276.
Search(t) ==
    /\ run[t].pc = "search"
    /\ CanStep(t)
    /\ \E listing \in Listings :
          \E results \in SearchMongo(run[t].query_embedding, collection,
                                     listing, SearchLimit) :
             run' = [run EXCEPT ![t] =
                        [Log(run[t], "search") EXCEPT !.listing = listing,
                                                      !.seen = collection,
                                                      !.results = results,
                                                      !.pc = "rank"]]
    /\ current' = After(t, "search")
    /\ UNCHANGED <<collection, cache, splitVars, embVars, rankVars>>

\* Lines 277-283.
RankResults(t) ==
    /\ run[t].pc = "rank"
    /\ CanStep(t)
    /\ run' = [run EXCEPT ![t] =
                  [Log(run[t], "rank") EXCEPT
                      !.similarities = Rank(run[t].query_embedding, run[t].results),
                      !.pc = "cache"]]
    /\ current' = After(t, "rank")
    /\ UNCHANGED <<collection, cache, splitVars, embVars, rankVars>>

\* Lines 286-287: the cache write and the return.  A write that raises is
\* printed at line 237 and leaves the cache alone; only the write that
\* succeeds is followed.
CacheAndReturn(t) ==
    /\ run[t].pc = "cache"
    /\ CanStep(t)
    /\ cache' = SetEx(cache, "chat:" \o Author, CacheTtl, run[t].similarities)
    /\ run' = [run EXCEPT ![t] =
                  [Log(run[t], "cache") EXCEPT !.ret = run[t].similarities,
                                               !.pc = "render"]]
    /\ current' = After(t, "cache")
    /\ UNCHANGED <<collection, splitVars, embVars, rankVars>>

\* Lines 308-318.  process_document has returned: of its frame only the
\* returned list is left.
Render(t) ==
    /\ run[t].pc = "render"
    /\ CanStep(t)
    /\ run' = [run EXCEPT ![t] =
                  [Fresh EXCEPT
                      !.query = run[t].query,
                      !.ret = run[t].ret,
                      !.response = Reply(run[t].query, run[t].ret),
                      !.shown = IF run[t].ret # <<>> /\ IsMatch(run[t].ret[1].similarity)
                                THEN Min(Len(run[t].ret), ShownLimit) ELSE 0,
                      !.pc = "send"]]
    /\ current' = After(t, "render")
    /\ UNCHANGED <<collection, cache, splitVars, embVars, rankVars>>

\* Lines 320-321: the reply goes out and search_command returns.
Send(t) ==
    /\ run[t].pc = "send"
    /\ CanStep(t)
    /\ Sendable(run[t].response)
    /\ run' = [run EXCEPT ![t] = [Fresh EXCEPT !.pc = "done"]]
    /\ current' = After(t, "send")
    /\ UNCHANGED <<collection, cache, splitVars, embVars, rankVars>>

Next ==
    \E t \in Tasks :
        \/ Dispatch(t)
        \/ Fetch(t)
        \/ Chunk(t)
        \/ Embed(t)
        \/ Persist(t)
        \/ EmbedQuery(t)
        \/ Search(t)
        \/ RankResults(t)
        \/ CacheAndReturn(t)
        \/ Render(t)
        \/ Send(t)

Spec == BotInit /\ [][Next]_vars

----------------------------------------------------------------------------
(* Properties of the pipeline *)

\* The invocation has passed the store step and not yet gone on.
Persisted(t) == run[t].pc = "embedq"

\* process_document has returned and search_command has not yet built its
\* reply.
HasReturned(t) == run[t].pc = "render"

\* The reply is built and about to be sent.
Replying(t) == run[t].pc = "send"

\* The chunks of the run that got a vector and are not blank, as records.
EmbeddedChunks(r) ==
    SelectSeq([i \in 1..Len(r.chunks) |->
                   [text |-> r.chunks[i], embedding |-> r.vecs[i]]],
              LAMBDA d : d.embedding # None /\ Strip(d.text) # "")

\* C3: when the store step of a run has completed without a store failure,
\* the collection holds exactly one record {text, embedding} for each chunk
\* of that run whose embedding succeeded and whose text is not blank, in
\* chunk order, and nothing an earlier run wrote.
C3_CollectionIsThisRun ==
    \A t \in Tasks :
        (Persisted(t) /\ run[t].store_ok) =>
            /\ collection = EmbeddedChunks(run[t])
            /\ \A i \in 1..Len(collection) : collection[i] # StaleDoc

\* A run of several chunks, one of which failed to embed, has stored the
\* others over what an earlier run left.
C3_Witness ==
    \E t \in Tasks :
        /\ Persisted(t)
        /\ run[t].store_ok
        /\ Len(run[t].chunks) >= 2
        /\ \E i \in 1..Len(run[t].vecs) : run[t].vecs[i] = None
        /\ Len(collection) = Len(run[t].chunks) - 1

FailureRecord(msg) == <<[text |-> msg, similarity |-> [sign |-> 0, p |-> 0, q |-> 1]]>>

DownloadFailed(r) == r.downloaded = None \/ r.downloaded.text = ""

QueryEmbeddingFailed(r) == "embedq" \in r.steps /\ r.query_embedding = None

ReturnedFailure(r) ==
    /\ r.pc \in {"render", "send"}
    /\ r.ret \in {FailureRecord("Failed to download or extract text from document"),
                  FailureRecord("Failed to generate query embedding")}

C4_FailureReturns ==
    \A t \in Tasks :
        HasReturned(t) =>
            /\ DownloadFailed(run[t]) =>
                  /\ run[t].ret =
                        FailureRecord("Failed to download or extract text from document")
                  /\ run[t].steps = {"fetch"}
            /\ QueryEmbeddingFailed(run[t]) =>
                  /\ run[t].ret = FailureRecord("Failed to generate query embedding")
                  /\ run[t].steps \cap {"search", "rank", "cache"} = {}

C4_FailureTouchesNothing ==
    \A t \in Tasks :
        /\ (run[t].pc = "acked" /\ run'[t].pc = "render")
              => UNCHANGED <<collection, cache>>
        /\ (run[t].pc = "embedq" /\ run'[t].pc = "render")
              => UNCHANGED <<collection, cache>>
        /\ (ReturnedFailure(run[t]) /\ run'[t] # run[t])
              => UNCHANGED <<collection, cache>>

\* C4: a run that fails returns exactly one record with the failure's
\* message and similarity 0 and does nothing more.  When the download gives
\* None or empty text the run has done no chunking, embedding, store, search
\* or cache write, and the collection and the cache are as they were; when
\* the query embedding fails the run has done no search and no cache write.
C4_TerminalFailures == []C4_FailureReturns /\ [][C4_FailureTouchesNothing]_vars

\* A run whose download gave empty text has returned while another
\* invocation waits: the earlier session's document is still in the
\* collection and nothing is in the cache.
C4_Witness ==
    \E t \in Tasks : \E u \in Tasks :
        /\ HasReturned(t)
        /\ run[t].downloaded = [text |-> ""]
        /\ collection # <<>>
        /\ cache = {}
        /\ current = t
        /\ run[u].pc = "acked"

IndexReady(listing) ==
    /\ ~listing.raises
    /\ \E i \in 1..Len(listing.indexes) :
          listing.indexes[i] = [name |-> "default", type |-> "vectorSearch"]

Searched(r) == "search" \in r.steps

\* C5 as stated: with the index missing or of the wrong kind the search
\* returns the empty list and the run returns a non-empty list holding a
\* record of similarity 0; whatever happens, the returned list is non-empty.
C5_AlwaysNonEmpty ==
    \A t \in Tasks :
        HasReturned(t) =>
            /\ (Searched(run[t]) /\ ~IndexReady(run[t].listing)) =>
                  /\ run[t].results = <<>>
                  /\ Len(run[t].ret) >= 1
                  /\ run[t].ret[1].similarity.sign = 0
            /\ run[t].ret # <<>>

\* C5: with the index missing or of the wrong kind the search returns the
\* empty list without raising, and the run returns the empty list; the reply
\* built from it is the fixed "No results found" message.  The returned list
\* is empty exactly when the run searched and no candidate carrying a vector
\* came back.
C5_EmptyWithoutIndex ==
    \A t \in Tasks :
        HasReturned(t) =>
            /\ (Searched(run[t]) /\ ~IndexReady(run[t].listing)) =>
                  /\ run[t].results = <<>>
                  /\ run[t].ret = <<>>
                  /\ Reply(run[t].query, run[t].ret) =
                        "No results found. Make sure the vector search index is configured correctly."
            /\ run[t].ret = <<>> <=>
                  /\ Searched(run[t])
                  /\ \A i \in 1..Len(run[t].results) :
                        "embedding" \notin DOMAIN run[t].results[i]

\* A run has searched a collection of several documents through an index of
\* the right name and the wrong kind, and has returned.
C5_Witness ==
    \E t \in Tasks :
        /\ HasReturned(t)
        /\ Searched(run[t])
        /\ ~run[t].listing.raises
        /\ \E i \in 1..Len(run[t].listing.indexes) :
              /\ run[t].listing.indexes[i].name = "default"
              /\ run[t].listing.indexes[i].type # "vectorSearch"
        /\ Len(run[t].seen) >= 2
        /\ run[t].ret = <<>>

\* The invocation is inside process_document, past its first call.
InsideRun(t) ==
    run[t].pc \in {"chunk", "embed", "persist", "embedq", "search", "rank", "cache"}

\* The invocation has been dispatched and has not finished.
InFlight(t) == run[t].pc \notin {"idle", "done", "hung"}

HasSearched(t) == run[t].pc \in {"rank", "cache"} \/ (HasReturned(t) /\ Searched(run[t]))

StartsWith(s, prefix) ==
    Len(s) >= Len(prefix) /\ SubSeq(s, 1, Len(prefix)) = prefix

\* C10: search_command shows result texts only when the returned list is
\* non-empty and its first record has a similarity above 0, and then at most
\* 3 records; in every other case, the failure records and a negative top
\* similarity among them, the reply is the fixed "No results found" message;
\* no reply is longer than 2000 characters.
C10_ReplyShape ==
    \A t \in Tasks :
        Replying(t) =>
            LET r == run[t]
                shows == r.ret # <<>> /\ r.ret[1].similarity.sign = 1
            IN  /\ shows =>
                      /\ StartsWith(r.response, "**Top Results for: '")
                      /\ r.shown >= 1
                      /\ r.shown <= 3
                      /\ r.shown <= Len(r.ret)
                /\ ~shows =>
                      /\ r.response =
                            "No results found. Make sure the vector search index is configured correctly."
                      /\ r.shown = 0
                /\ Len(r.response) <= 2000

\* A reply that shows results and was cut to the limit is about to be sent.
C10_Witness ==
    \E t \in Tasks :
        /\ Replying(t)
        /\ run[t].shown >= 1
        /\ Len(run[t].response) = 2000
        /\ SubSeq(run[t].response, 1998, 2000) = "..."

=============================================================================
